---- MODULE Spec2Model ----
(***************************************************************************)
(* A model of scripts/ics_to_schedule.py: the iCalendar-to-schedule        *)
(* converter.  Text is modelled as a sequence of one-character strings, so *)
(* that stripping, splitting, prefix matching and case conversion are      *)
(* computed character by character as the Python code computes them.       *)
(***************************************************************************)
EXTENDS Integers, Sequences, FiniteSets, TLC

VARIABLES
    pc,          \* position of the run (main / ics_to_items loop / pure call)
    out_file,    \* the output file args.out: "absent", "prior" or "written"
    out_items,   \* what main wrote to args.out (the payload's items)
    now_utc,     \* main: now_utc (seconds from the model epoch)
    window_days, \* main: args.days
    limit,       \* main: args.limit
    n,           \* ics_to_items: number of logical lines consumed by the loop
    in_event,    \* ics_to_items: in_event
    ev,          \* ics_to_items: ev, the event accumulator
    items,       \* ics_to_items: items
    g_last,      \* history: per recognised name, the last raw line since BEGIN
    produced,    \* history: the records ics_to_items had made when the feed ended
    u_text,      \* unfold_ics: the raw text
    u_out,       \* unfold_ics: the logical lines
    u_again,     \* unfold_ics applied to the joined logical lines
    c_summary,   \* classifier: the unescaped summary
    c_desc,      \* classifier: the unescaped description
    c_type,      \* classifier: infer_type's result
    c_record     \* classifier: the record made of them (lines 142-152)

vars == <<pc, out_file, out_items, now_utc, window_days, limit, n, in_event, ev, items,
          g_last, produced, u_text, u_out, u_again, c_summary, c_desc, c_type, c_record>>

mainVars ==
    <<out_file, out_items, now_utc, window_days, limit, n, in_event, ev, items, g_last,
      produced>>
unfoldVars == <<u_text, u_out, u_again>>
classVars == <<c_summary, c_desc, c_type, c_record>>

(***************************************************************************)
(* Text primitives (Python str methods used by the script).                *)
(***************************************************************************)

\* Python's None where a str is expected: a text no string equals (its one
\* element is not a character).
None == <<"None">>

\* The characters str.strip() and the regex class \s remove, among those the
\* model's inputs use.
Whitespace == {" ", "\t"}

\* str.startswith for one character.
StartsWithChar(s, c) == Len(s) > 0 /\ s[1] = c

\* str.startswith.
StartsWith(s, p) == Len(s) >= Len(p) /\ SubSeq(s, 1, Len(p)) = p

\* str.endswith.
EndsWith(s, p) == Len(s) >= Len(p) /\ SubSeq(s, Len(s) - Len(p) + 1, Len(s)) = p

\* `p in s` for strings.
Contains(s, p) == \E i \in 1..(Len(s) - Len(p) + 1) : SubSeq(s, i, i + Len(p) - 1) = p

\* str.find: the first index (1-based) at which p occurs in s, 0 when absent.
Find(s, p) ==
    IF Contains(s, p)
    THEN CHOOSE i \in 1..(Len(s) - Len(p) + 1) :
            /\ SubSeq(s, i, i + Len(p) - 1) = p
            /\ \A j \in 1..(i - 1) : SubSeq(s, j, j + Len(p) - 1) # p
    ELSE 0

RECURSIVE LStrip(_)
\* str.lstrip().
LStrip(s) == IF Len(s) > 0 /\ s[1] \in Whitespace THEN LStrip(Tail(s)) ELSE s

RECURSIVE RStrip(_)
\* str.rstrip().
RStrip(s) ==
    IF Len(s) > 0 /\ s[Len(s)] \in Whitespace THEN RStrip(SubSeq(s, 1, Len(s) - 1)) ELSE s

\* str.strip().
Strip(s) == RStrip(LStrip(s))

RECURSIVE Replace(_, _, _)
\* str.replace(old, new): left to right, non-overlapping (old is non-empty).
Replace(s, old, new) ==
    IF Len(s) < Len(old) THEN s
    ELSE IF SubSeq(s, 1, Len(old)) = old
         THEN new \o Replace(SubSeq(s, Len(old) + 1, Len(s)), old, new)
         ELSE <<s[1]>> \o Replace(Tail(s), old, new)

RECURSIVE Split(_, _)
\* str.split(sep) for a one-character separator: every piece, empty ones too.
Split(s, sep) ==
    LET i == Find(s, <<sep>>)
    IN IF i = 0 THEN <<s>>
       ELSE <<SubSeq(s, 1, i - 1)>> \o Split(SubSeq(s, i + 1, Len(s)), sep)

\* str.split(sep, 1): the text before the first sep and the text after it.
Split1(s, sep) ==
    LET i == Find(s, <<sep>>)
    IN IF i = 0 THEN <<s>> ELSE <<SubSeq(s, 1, i - 1), SubSeq(s, i + 1, Len(s))>>

RECURSIVE Join(_, _)
\* sep.join(parts).
Join(parts, sep) ==
    IF Len(parts) = 0 THEN << >>
    ELSE IF Len(parts) = 1 THEN parts[1]
    ELSE parts[1] \o sep \o Join(Tail(parts), sep)

(***************************************************************************)
(* unfold_ics                                                              *)
(***************************************************************************)

RECURSIVE UnfoldLoopNoGuard(_, _)
\* Mutant of UnfoldLoop: the `and out` guard is dropped, so a leading
\* continuation line loses its first character too.
UnfoldLoopNoGuard(lines, out) ==
    IF Len(lines) = 0 THEN out
    ELSE LET line == lines[1]
         IN IF Len(line) = 0 THEN UnfoldLoopNoGuard(Tail(lines), out)
            ELSE IF StartsWithChar(line, " ") \/ StartsWithChar(line, "\t")
                 THEN IF Len(out) > 0
                      THEN UnfoldLoopNoGuard(Tail(lines),
                               [out EXCEPT ![Len(out)] = out[Len(out)] \o Tail(line)])
                      ELSE UnfoldLoopNoGuard(Tail(lines), <<Tail(line)>>)
                 ELSE UnfoldLoopNoGuard(Tail(lines), Append(out, line))

RECURSIVE UnfoldLoop(_, _)
\* The for loop of unfold_ics over the physical lines, `out` so far.
UnfoldLoop(lines, out) ==
    IF Len(lines) = 0 THEN out
    ELSE LET line == lines[1]
         IN IF Len(line) = 0 THEN UnfoldLoop(Tail(lines), out)
            ELSE IF (StartsWithChar(line, " ") \/ StartsWithChar(line, "\t")) /\ Len(out) > 0
                 THEN UnfoldLoop(Tail(lines),
                                 [out EXCEPT ![Len(out)] = out[Len(out)] \o Tail(line)])
                 ELSE UnfoldLoop(Tail(lines), Append(out, line))

\* text.replace("\r\n", "\n").replace("\r", "\n")
NormalizeNewlines(text) == Replace(Replace(text, <<"\r", "\n">>, <<"\n">>), <<"\r">>, <<"\n">>)

unfold_ics(text) == UnfoldLoop(Split(NormalizeNewlines(text), "\n"), << >>)

(***************************************************************************)
(* Case conversion and the case-insensitive regular expressions            *)
(***************************************************************************)

\* Three non-ASCII characters, each one character of the text: U+0130
\* (capital I with dot above), U+0131 (small dotless i) and U+0307 (the
\* combining dot above that str.lower() puts after the i of a lowered U+0130).
DottedI == "I_dot"
DotlessI == "i_nodot"
CombiningDot == "dot_above"

LowerLetters ==
    <<"a", "b", "c", "d", "e", "f", "g", "h", "i", "j", "k", "l", "m",
      "n", "o", "p", "q", "r", "s", "t", "u", "v", "w", "x", "y", "z">>

UpperLetters ==
    <<"A", "B", "C", "D", "E", "F", "G", "H", "I", "J", "K", "L", "M",
      "N", "O", "P", "Q", "R", "S", "T", "U", "V", "W", "X", "Y", "Z">>

\* The position of letter c in the alphabet `letters`, 0 when it is not in it.
LetterIndex(letters, c) ==
    IF \E i \in 1..Len(letters) : letters[i] = c
    THEN CHOOSE i \in 1..Len(letters) : letters[i] = c
    ELSE 0

\* str.upper() of one character: U+0131 uppercases to I, U+0130 is already
\* upper case and stays.
UpperChar(c) ==
    IF LetterIndex(LowerLetters, c) > 0 THEN UpperLetters[LetterIndex(LowerLetters, c)]
    ELSE IF c = DotlessI THEN "I"
    ELSE c

\* str.lower() of one character: U+0130 lowers to two characters.
LowerChar(c) ==
    IF LetterIndex(UpperLetters, c) > 0 THEN <<LowerLetters[LetterIndex(UpperLetters, c)]>>
    ELSE IF c = DottedI THEN <<"i", CombiningDot>>
    ELSE <<c>>

RECURSIVE UpperStr(_)
\* str.upper().
UpperStr(s) == IF Len(s) = 0 THEN << >> ELSE <<UpperChar(s[1])>> \o UpperStr(Tail(s))

RECURSIVE LowerStr(_)
\* str.lower().
LowerStr(s) == IF Len(s) = 0 THEN << >> ELSE LowerChar(s[1]) \o LowerStr(Tail(s))

\* re.I on a str pattern: the case folding of the regex engine, under which
\* I, i, U+0130 and U+0131 are one letter.
ReFold(c) ==
    IF c \in {DottedI, DotlessI} THEN "i"
    ELSE IF LetterIndex(UpperLetters, c) > 0 THEN LowerLetters[LetterIndex(UpperLetters, c)]
    ELSE c

\* Whether the text s holds the pattern word w at position i, ignoring case.
MatchWordI(s, i, w) ==
    /\ Len(s) >= i + Len(w) - 1
    /\ \A k \in 1..Len(w) : ReFold(s[i + k - 1]) = ReFold(w[k])

RECURSIVE SkipWs(_, _)
\* \s* from position i: the position of the first character it does not take.
SkipWs(s, i) == IF i <= Len(s) /\ s[i] \in Whitespace THEN SkipWs(s, i + 1) ELSE i

MLB == <<"M", "L", "B">>
F1 == <<"F", "1">>
FE == <<"F", "E">>
BUILD == <<"B", "U", "I", "L", "D">>
GAME == <<"G", "A", "M", "E">>
STREAM == <<"S", "T", "R", "E", "A", "M">>

\* The alternation (MLB|F1|FE|BUILD|GAME), in its order.
Categories == <<MLB, F1, FE, BUILD, GAME>>

\* The vocabulary of a record's type.
TypeVocabulary == {MLB, F1, FE, BUILD, GAME, STREAM}

\* No match of a regular expression.
NoMatch == [end |-> 0, group |-> << >>]

\* The first alternative of Categories that matches (ok[k]), 0 when none does.
FirstCategory(ok) ==
    IF \E k \in 1..Len(Categories) : ok[k]
    THEN CHOOSE k \in 1..Len(Categories) : ok[k] /\ \A j \in 1..(k - 1) : ~ok[j]
    ELSE 0

\* ^\s*\[(MLB|F1|FE|BUILD|GAME)\]\s*  with re.I, searched in s: the end of the
\* match and the text of group 1.
SearchBracket(s) ==
    LET i == SkipWs(s, 1)
        ok == [c \in 1..Len(Categories) |->
                  /\ MatchWordI(s, i + 1, Categories[c])
                  /\ i + 1 + Len(Categories[c]) <= Len(s)
                  /\ s[i + 1 + Len(Categories[c])] = "]"]
        k == FirstCategory(ok)
    IN IF i <= Len(s) /\ s[i] = "[" /\ k > 0
       THEN [end |-> SkipWs(s, i + 2 + Len(Categories[k])) - 1,
             group |-> SubSeq(s, i + 1, i + Len(Categories[k]))]
       ELSE NoMatch

\* ^\s*(MLB|F1|FE|BUILD|GAME)\s*[:|]\s*  with re.I, searched in s.
SearchDelim(s) ==
    LET i == SkipWs(s, 1)
        Delim(k) == SkipWs(s, i + Len(Categories[k]))
        ok == [c \in 1..Len(Categories) |->
                  /\ MatchWordI(s, i, Categories[c])
                  /\ Delim(c) <= Len(s)
                  /\ s[Delim(c)] \in {":", "|"}]
        k == FirstCategory(ok)
    IN IF k > 0
       THEN [end |-> SkipWs(s, Delim(k) + 1) - 1,
             group |-> SubSeq(s, i, i + Len(Categories[k]) - 1)]
       ELSE NoMatch

\* The two compiled patterns, in list order.
TYPE_PATTERNS == <<"bracket", "delim">>

\* rx.search(s)
ReSearch(rx, s) == IF rx = "bracket" THEN SearchBracket(s) ELSE SearchDelim(s)

\* rx.sub("", s): both patterns are anchored at the start, so at most one
\* match is removed.
ReSub(rx, s) == SubSeq(s, ReSearch(rx, s).end + 1, Len(s))

(***************************************************************************)
(* unescape_ics_text, infer_type, infer_note, strip_type_prefix            *)
(***************************************************************************)

unescape_ics_text(s) ==
    Strip(Replace(Replace(Replace(Replace(s,
        <<"\\", "n">>, <<" ">>), <<"\\", "N">>, <<" ">>), <<"\\", ",">>, <<",">>), <<"\\", ";">>, <<";">>))

\* The hashtag scan of infer_type over the lowercased text.
HashtagType(text) ==
    IF Contains(text, <<"#", "m", "l", "b">>) THEN MLB
    ELSE IF Contains(text, <<"#", "f", "1">>) THEN F1
    ELSE IF Contains(text, <<"#", "f", "e">>) \/ Contains(text, <<"#", "f", "o", "r", "m", "u", "l", "a", "e">>) THEN FE
    ELSE IF Contains(text, <<"#", "b", "u", "i", "l", "d">>) THEN BUILD
    ELSE IF Contains(text, <<"#", "g", "a", "m", "e">>) THEN GAME
    ELSE None

infer_type(summary, desc) ==
    LET s == Strip(summary)
        m1 == ReSearch(TYPE_PATTERNS[1], s)
        m2 == ReSearch(TYPE_PATTERNS[2], s)
    IN IF m1 # NoMatch THEN UpperStr(m1.group)
       ELSE IF m2 # NoMatch THEN UpperStr(m2.group)
       ELSE HashtagType(LowerStr(summary \o <<" ">> \o desc))

infer_note(summary, desc) ==
    LET text == LowerStr(summary \o <<" ">> \o desc)
    IN IF \/ Contains(text, <<"#", "r", "e", "p", "l", "a", "y">>)
          \/ Contains(text, <<"[", "r", "e", "p", "l", "a", "y", "]">>)
          \/ Contains(text, <<"r", "e", "p", "l", "a", "y", ":">>)
       THEN <<"R", "e", "p", "l", "a", "y">>
       ELSE <<"L", "i", "v", "e">>

strip_type_prefix(summary) ==
    Strip(ReSub(TYPE_PATTERNS[2], ReSub(TYPE_PATTERNS[1], Strip(summary))))

(***************************************************************************)
(* Python dict and parse_prop                                              *)
(***************************************************************************)

\* {} : a dict is a function from its keys.
EmptyDict == << >>

\* d[k] = v
DictSet(d, k, v) == [x \in (DOMAIN d) \cup {k} |-> IF x = k THEN v ELSE d[x]]

\* d.get(k, default)
DictGet(d, k, default) == IF k \in DOMAIN d THEN d[k] ELSE default

RECURSIVE ParamsOf(_, _)
\* The loop over parts[1:] of parse_prop, `params` so far.
ParamsOf(parts, params) ==
    IF Len(parts) = 0 THEN params
    ELSE LET p == parts[1]
             kv == Split1(p, "=")
         IN IF Contains(p, <<"=">>)
            THEN ParamsOf(Tail(parts), DictSet(params, UpperStr(Strip(kv[1])), Strip(kv[2])))
            ELSE ParamsOf(Tail(parts), params)

\* parse_prop: <<key, params, value>>.
parse_prop(line) ==
    IF ~Contains(line, <<":">>)
    THEN <<UpperStr(Strip(line)), EmptyDict, << >> >>
    ELSE LET lv == Split1(line, ":")
             parts == Split(lv[1], ";")
         IN <<UpperStr(Strip(parts[1])), ParamsOf(Tail(parts), EmptyDict), Strip(lv[2])>>

(***************************************************************************)
(* datetime: strptime, time zones, strftime                                *)
(***************************************************************************)

Digits == <<"0", "1", "2", "3", "4", "5", "6", "7", "8", "9">>

IsDigit(c) == \E i \in 1..10 : Digits[i] = c

DigitVal(c) == (CHOOSE i \in 1..10 : Digits[i] = c) - 1

RECURSIVE NumVal(_)
\* The number a string of digits denotes.
NumVal(s) == IF Len(s) = 0 THEN 0 ELSE NumVal(SubSeq(s, 1, Len(s) - 1)) * 10 + DigitVal(s[Len(s)])

AllDigits(s) == \A i \in 1..Len(s) : IsDigit(s[i])

IsLeap(y) == (y % 4 = 0 /\ y % 100 # 0) \/ y % 400 = 0

DaysInMonth(y, m) ==
    IF m = 2 THEN (IF IsLeap(y) THEN 29 ELSE 28)
    ELSE IF m \in {4, 6, 9, 11} THEN 30 ELSE 31

\* Days from 1970-01-01 to the civil date y-m-d (proleptic Gregorian, as
\* datetime counts days).
DaysFromCivil(y, m, d) ==
    LET yy == IF m <= 2 THEN y - 1 ELSE y
        era == yy \div 400
        yoe == yy - era * 400
        mp == IF m > 2 THEN m - 3 ELSE m + 9
        doy == (153 * mp + 2) \div 5 + d - 1
        doe == yoe * 365 + yoe \div 4 - yoe \div 100 + doy
    IN era * 146097 + doe - 719468

\* The civil date <<y, m, d>> of a day count from 1970-01-01.
CivilFromDays(z0) ==
    LET z == z0 + 719468
        era == z \div 146097
        doe == z - era * 146097
        yoe == (doe - doe \div 1460 + doe \div 36524 - doe \div 146096) \div 365
        doy == doe - (365 * yoe + yoe \div 4 - yoe \div 100)
        mp == (5 * doy + 2) \div 153
        d == doy - (153 * mp + 2) \div 5 + 1
        m == IF mp < 10 THEN mp + 3 ELSE mp - 9
        y == yoe + era * 400
    IN <<IF m <= 2 THEN y + 1 ELSE y, m, d>>

\* timedelta(days=1) in seconds.
DaySeconds == 24 * 3600

\* timedelta(days=k)
TimedeltaDays(k) == k * DaySeconds

\* A datetime as an instant: seconds from 1970-01-01T00:00:00 on its own clock.
Instant(y, m, d, hh, mm, ss) == DaysFromCivil(y, m, d) * DaySeconds + hh * 3600 + mm * 60 + ss

\* The outcomes of strptime and parse_dt: a datetime (an instant t), Python's
\* None, or the ValueError strptime raises.
DtAt(t) == [kind |-> "datetime", t |-> t]
DtNone == [kind |-> "None", t |-> 0]
ValueError == [kind |-> "ValueError", t |-> 0]

\* datetime.strptime(value, "%Y%m%dT%H%M%S" + suffix) for the fixed-width
\* forms YYYYMMDDTHHMMSS[suffix]; every other text raises ValueError.  (The
\* library also reads fields written without their leading zero; no input of
\* the model uses such a form.)
Strptime(value, suffix) ==
    LET y == NumVal(SubSeq(value, 1, 4))
        m == NumVal(SubSeq(value, 5, 6))
        d == NumVal(SubSeq(value, 7, 8))
        hh == NumVal(SubSeq(value, 10, 11))
        mm == NumVal(SubSeq(value, 12, 13))
        ss == NumVal(SubSeq(value, 14, 15))
    IN IF /\ Len(value) = 15 + Len(suffix)
          /\ AllDigits(SubSeq(value, 1, 8))
          /\ value[9] = "T"
          /\ AllDigits(SubSeq(value, 10, 15))
          /\ SubSeq(value, 16, Len(value)) = suffix
          /\ y >= 1 /\ m \in 1..12 /\ d \in 1..DaysInMonth(y, m)
          /\ hh \in 0..23 /\ mm \in 0..59 /\ ss \in 0..59
       THEN DtAt(Instant(y, m, d, hh, mm, ss))
       ELSE ValueError

\* The one zone name of the model's inputs that the zone database knows.
NewYork == <<"A", "m", "e", "r", "i", "c", "a", "/", "N", "e", "w", "_", "Y", "o", "r", "k">>

\* ZoneInfo(tzid), with the except branch: the UTC offset in seconds that the
\* zone gives a local time.  America/New_York is on daylight time (UTC-4) at
\* every local time the model's inputs give it; a name the zone database does
\* not know falls back to timezone.utc.
UtcOffset(tzid) == IF tzid = NewYork THEN 0 - 4 * 3600 ELSE 0

\* parse_dt: the UTC instant, None for a date-only value, or ValueError for
\* the exception strptime raises (parse_dt does not catch it).  tzid is None
\* when the property has no TZID parameter.
parse_dt(value0, tzid) ==
    LET value == Strip(value0)
    IN IF Len(value) = 8 /\ AllDigits(value) THEN DtNone
       ELSE IF EndsWith(value, <<"Z">>) THEN Strptime(value, <<"Z">>)
       ELSE LET dt == Strptime(value, << >>)
            IN IF dt = ValueError THEN ValueError
               ELSE IF tzid # None /\ tzid # << >> THEN DtAt(dt.t - UtcOffset(tzid))
               ELSE dt

\* Zero-padded decimal of width w.
RECURSIVE Pad(_, _)
Pad(k, w) == IF w = 0 THEN << >> ELSE Pad(k \div 10, w - 1) \o <<Digits[(k % 10) + 1]>>

\* start.strftime("%Y-%m-%dT%H:%M:%SZ") of a UTC instant (years 1000..9999).
Strftime(t) ==
    LET days == t \div DaySeconds
        secs == t % DaySeconds
        ymd == CivilFromDays(days)
    IN Pad(ymd[1], 4) \o <<"-">> \o Pad(ymd[2], 2) \o <<"-">> \o Pad(ymd[3], 2) \o <<"T">>
       \o Pad(secs \div 3600, 2) \o <<":">> \o Pad((secs % 3600) \div 60, 2) \o <<":">>
       \o Pad(secs % 60, 2) \o <<"Z">>

(***************************************************************************)
(* ics_to_items: flush_event, the sort, and the slice of main              *)
(***************************************************************************)

\* U+00B7, the separator of DEFAULT_WHERE, as one character.
MiddleDot == "middle_dot"

DEFAULT_WHERE ==
    <<"K", "i", "c", "k", " ">> \o <<MiddleDot>> \o <<" ", "T", "w", "i", "t", "c", "h", " ">> \o <<MiddleDot>> \o <<" ", "Y", "o", "u", "T", "u", "b", "e">>

BEGIN_VEVENT == <<"B", "E", "G", "I", "N", ":", "V", "E", "V", "E", "N", "T">>
END_VEVENT == <<"E", "N", "D", ":", "V", "E", "V", "E", "N", "T">>
SUMMARY == <<"S", "U", "M", "M", "A", "R", "Y">>
DTSTART == <<"D", "T", "S", "T", "A", "R", "T">>
LOCATION == <<"L", "O", "C", "A", "T", "I", "O", "N">>
DESCRIPTION == <<"D", "E", "S", "C", "R", "I", "P", "T", "I", "O", "N">>
TZID == <<"T", "Z", "I", "D">>

\* The names whose property lines the loop stores.
RecognizedKeys == {SUMMARY, DTSTART, LOCATION, DESCRIPTION}

\* ({}, ""), the default of ev.get.
NoProp == <<EmptyDict, << >> >>

\* The dict appended to items (lines 146-152).
MakeRecord(summary, start, location, desc) ==
    LET t == infer_type(summary, desc)
    IN [title |-> strip_type_prefix(summary),
        when  |-> Strftime(start),
        where |-> IF location # << >> THEN location ELSE DEFAULT_WHERE,
        type  |-> IF t # None /\ t # << >> THEN t ELSE STREAM,
        note  |-> infer_note(summary, desc)]

\* The outcome of flush_event on accumulator e and list its: the accumulator
\* and the list after the call, and whether the call raised.
Flushed(e, its) == [ev |-> e, items |-> its, raised |-> FALSE]
Raised(e, its) == [ev |-> e, items |-> its, raised |-> TRUE]

\* Mutant of flush_event: the check against the end of the window is left out.
flush_event_no_upper(e, its) ==
    IF DOMAIN e = {} THEN Flushed(e, its)
    ELSE LET summary == unescape_ics_text(DictGet(e, SUMMARY, NoProp)[2])
             dt == DictGet(e, DTSTART, NoProp)
             start == parse_dt(dt[2], DictGet(dt[1], TZID, None))
         IN IF summary = << >> THEN Flushed(EmptyDict, its)
            ELSE IF start = ValueError THEN Raised(e, its)
            ELSE IF start = DtNone THEN Flushed(EmptyDict, its)
            ELSE IF start.t < now_utc - TimedeltaDays(1) THEN Flushed(EmptyDict, its)
            ELSE Flushed(EmptyDict,
                    Append(its, MakeRecord(summary, start.t,
                        unescape_ics_text(DictGet(e, LOCATION, NoProp)[2]),
                        unescape_ics_text(DictGet(e, DESCRIPTION, NoProp)[2]))))

\* Mutant of flush_event: the return for an event before the window forgets
\* ev = {}.
flush_event_no_clear(e, its) ==
    IF DOMAIN e = {} THEN Flushed(e, its)
    ELSE LET summary == unescape_ics_text(DictGet(e, SUMMARY, NoProp)[2])
             dt == DictGet(e, DTSTART, NoProp)
             start == parse_dt(dt[2], DictGet(dt[1], TZID, None))
         IN IF summary = << >> THEN Flushed(EmptyDict, its)
            ELSE IF start = ValueError THEN Raised(e, its)
            ELSE IF start = DtNone THEN Flushed(EmptyDict, its)
            ELSE IF start.t < now_utc - TimedeltaDays(1) THEN Flushed(e, its)
            ELSE IF start.t > now_utc + TimedeltaDays(window_days) THEN Flushed(EmptyDict, its)
            ELSE Flushed(EmptyDict,
                    Append(its, MakeRecord(summary, start.t,
                        unescape_ics_text(DictGet(e, LOCATION, NoProp)[2]),
                        unescape_ics_text(DictGet(e, DESCRIPTION, NoProp)[2]))))

\* flush_event (a closure over ev, items, now_utc and window_days).  The
\* ValueError of parse_dt is not caught: it leaves ev and items as they are
\* and propagates.
flush_event(e, its) ==
    IF DOMAIN e = {} THEN Flushed(e, its)
    ELSE LET summary == unescape_ics_text(DictGet(e, SUMMARY, NoProp)[2])
             dt == DictGet(e, DTSTART, NoProp)
             start == parse_dt(dt[2], DictGet(dt[1], TZID, None))
         IN IF summary = << >> THEN Flushed(EmptyDict, its)
            ELSE IF start = ValueError THEN Raised(e, its)
            ELSE IF start = DtNone THEN Flushed(EmptyDict, its)
            ELSE IF start.t < now_utc - TimedeltaDays(1) THEN Flushed(EmptyDict, its)
            ELSE IF start.t > now_utc + TimedeltaDays(window_days) THEN Flushed(EmptyDict, its)
            ELSE Flushed(EmptyDict,
                    Append(its, MakeRecord(summary, start.t,
                        unescape_ics_text(DictGet(e, LOCATION, NoProp)[2]),
                        unescape_ics_text(DictGet(e, DESCRIPTION, NoProp)[2]))))

\* The code points of the characters of a `when` text.
CodePoint(c) ==
    IF c = "-" THEN 45
    ELSE IF IsDigit(c) THEN 48 + DigitVal(c)
    ELSE IF c = ":" THEN 58
    ELSE IF c = "T" THEN 84
    ELSE 90

RECURSIVE StrLess(_, _)
\* a < b for Python strings: lexicographic by code point.
StrLess(a, b) ==
    IF Len(b) = 0 THEN FALSE
    ELSE IF Len(a) = 0 THEN TRUE
    ELSE IF a[1] # b[1] THEN CodePoint(a[1]) < CodePoint(b[1])
    ELSE StrLess(Tail(a), Tail(b))

RECURSIVE InsertByWhen(_, _)
\* x put into the sorted list s after every element whose key is not greater.
InsertByWhen(s, x) ==
    IF Len(s) = 0 THEN <<x>>
    ELSE IF StrLess(x.when, s[1].when) THEN <<x>> \o s
    ELSE <<s[1]>> \o InsertByWhen(Tail(s), x)

RECURSIVE SortFrom(_, _)
SortFrom(s, sorted) ==
    IF Len(s) = 0 THEN sorted ELSE SortFrom(Tail(s), InsertByWhen(sorted, s[1]))

\* Mutant of SortByWhen: the sort is left out.
SortByWhenSkipped(s) == s

\* items.sort(key=lambda x: x["when"]): stable, ascending by the `when` text.
SortByWhen(s) == SortFrom(s, << >>)

\* s[:k] of a Python list, for any int k: a negative k counts from the end.
SliceTo(s, k) ==
    IF k >= 0 THEN SubSeq(s, 1, IF k < Len(s) THEN k ELSE Len(s))
    ELSE SubSeq(s, 1, IF Len(s) + k > 0 THEN Len(s) + k ELSE 0)

\* Bound: the longest raw text the unfolding specification draws.
MaxTextLen == 5

\* The characters of the raw texts: a letter, both folding characters and
\* both line-ending characters.
TextChars == {"a", " ", "\t", "\r", "\n"}

RECURSIVE TextsUpTo(_)
TextsUpTo(k) ==
    IF k = 0 THEN {<< >>}
    ELSE LET shorter == TextsUpTo(k - 1)
         IN shorter \cup {Append(t, c) : t \in {s \in shorter : Len(s) = k - 1}, c \in TextChars}

RawTexts == TextsUpTo(MaxTextLen)

\* Idle values of the variables a specification does not use.
IdleMain ==
    /\ out_file = "absent" /\ out_items = << >> /\ now_utc = 0 /\ window_days = 0
    /\ limit = 0
    /\ n = 0 /\ in_event = FALSE /\ ev = << >> /\ items = << >> /\ g_last = << >> /\ produced = << >>
IdleUnfold == u_text = << >> /\ u_out = << >> /\ u_again = << >>
IdleClass == c_summary = << >> /\ c_desc = << >> /\ c_type = None /\ c_record = << >>

UnfoldInit ==
    /\ pc = "unfold"
    /\ u_text \in RawTexts
    /\ u_out = << >> /\ u_again = << >>
    /\ IdleMain /\ IdleClass

\* lines = unfold_ics(text)
UnfoldOnce ==
    /\ pc = "unfold"
    /\ u_out' = unfold_ics(u_text)
    /\ pc' = "unfolded"
    /\ UNCHANGED <<u_text, u_again, mainVars, classVars>>

\* unfold_ics("\n".join(lines))
UnfoldAgain ==
    /\ pc = "unfolded"
    /\ u_again' = unfold_ics(Join(u_out, <<"\n">>))
    /\ pc' = "reunfolded"
    /\ UNCHANGED <<u_text, u_out, mainVars, classVars>>

UnfoldNext == UnfoldOnce \/ UnfoldAgain

SpecUnfold == UnfoldInit /\ [][UnfoldNext]_vars

\* C7: unfolding is idempotent: unfolding the newline-joined logical lines of
\* any raw text gives the same logical lines again.
C7_UnfoldIdempotent == pc = "reunfolded" => u_again = u_out

\* C7 witness: a text with a \r\n ending, an empty line and a continuation
\* line that was merged, unfolded twice.
C7_Witness ==
    /\ pc = "reunfolded"
    /\ StartsWithChar(u_text, " ")
    /\ Contains(u_text, <<"\r">>)
    /\ Len(u_out) = 1 /\ Len(u_out[1]) >= 3 /\ StartsWithChar(u_out[1], " ")

(***************************************************************************)
(* The classifier on its own: infer_type, infer_note, strip_type_prefix    *)
(***************************************************************************)

\* Bound: the number of parts a summary is put together from.
MaxParts == 3

\* The parts of the summaries: markers of both patterns in upper, lower and
\* mixed case (one spelt with U+0130, which re.I takes for an I), a bare
\* category word, every hashtag, free text and white space.
SummaryParts ==
    { <<"[", "M", "L", "B", "]">>, <<"[", "f", "1", "]", " ">>, <<"[", "B", "U", DottedI, "L", "D", "]">>, <<"F", "E", ":">>, <<"G", "a", "m", "e", " ", "|">>, <<"B", "U", "I", "L", "D">>,
      <<"#", "m", "l", "b">>, <<"#", "F", "1">>, <<"#", "f", "e">>, <<"#", "f", "o", "r", "m", "u", "l", "a", "e">>, <<"#", "b", "u", "i", "l", "d">>, <<"#", "g", "a", "m", "e">>,
      <<"x">>, <<" ">> }

RECURSIVE SummariesUpTo(_)
SummariesUpTo(k) ==
    IF k = 0 THEN {<< >>}
    ELSE SummariesUpTo(k - 1) \cup {s \o p : s \in SummariesUpTo(k - 1), p \in SummaryParts}

\* The summaries flush_event classifies: unescaped, stripped and not empty.
Summaries == {unescape_ics_text(s) : s \in SummariesUpTo(MaxParts)} \ {<< >>}

\* The descriptions: none, one with the first hashtag and one with the last.
Descriptions == {<< >>, <<"#", "m", "l", "b">>, <<"s", "e", "e", " ", "#", "g", "a", "m", "e">>}

ClassInit ==
    /\ pc = "classify"
    /\ c_summary \in Summaries
    /\ c_desc \in Descriptions
    /\ c_type = None
    /\ c_record = << >>
    /\ IdleMain /\ IdleUnfold

\* Lines 142-152 of flush_event on the summary and description.
Classify ==
    /\ pc = "classify"
    /\ c_type' = infer_type(c_summary, c_desc)
    /\ c_record' = MakeRecord(c_summary, 0, << >>, c_desc)
    /\ pc' = "classified"
    /\ UNCHANGED <<c_summary, c_desc, mainVars, unfoldVars>>

ClassNext == Classify

SpecClassify == ClassInit /\ [][ClassNext]_vars

\* The category whose marker the summary begins with, None when it begins
\* with none: a category word in any case, in brackets or followed by a
\* colon or a pipe, after optional white space.
MarkerOf(summary) ==
    LET m == IF ReSearch(TYPE_PATTERNS[1], summary) # NoMatch
             THEN ReSearch(TYPE_PATTERNS[1], summary)
             ELSE ReSearch(TYPE_PATTERNS[2], summary)
    IN IF m = NoMatch THEN None
       ELSE CHOOSE cat \in {MLB, F1, FE, BUILD, GAME} :
               Len(cat) = Len(m.group) /\ MatchWordI(m.group, 1, cat)

\* The hashtags in priority order, each with its category.
HashtagPriority ==
    << <<<<"#", "m", "l", "b">>, MLB>>, <<<<"#", "f", "1">>, F1>>, <<<<"#", "f", "e">>, FE>>, <<<<"#", "f", "o", "r", "m", "u", "l", "a", "e">>, FE>>,
       <<<<"#", "b", "u", "i", "l", "d">>, BUILD>>, <<<<"#", "g", "a", "m", "e">>, GAME>> >>

\* The category of the first hashtag of the priority order found in text,
\* None when none is.
FirstHashtag(text) ==
    LET found == {i \in 1..Len(HashtagPriority) : Contains(text, HashtagPriority[i][1])}
    IN IF found = {} THEN None
       ELSE HashtagPriority[CHOOSE i \in found : \A j \in found : i <= j][2]

\* C8: the category is that of the marker the summary begins with, whatever
\* the hashtags; without a marker it is that of the first hashtag in
\* priority order found in the lowercased summary and description; without
\* either it is none and the record's type is STREAM; the record's type is
\* always one of MLB, F1, FE, BUILD, GAME, STREAM.
C8_FirstMatchWins ==
    pc = "classified" =>
        /\ MarkerOf(c_summary) # None => c_type = MarkerOf(c_summary)
        /\ MarkerOf(c_summary) = None =>
              c_type = FirstHashtag(LowerStr(c_summary \o <<" ">> \o c_desc))
        /\ c_record.type = (IF c_type = None THEN STREAM ELSE c_type)
        /\ c_record.type \in TypeVocabulary

\* The same statement for the summaries written in ASCII.
C8_FirstMatchWinsAscii ==
    (\A i \in 1..Len(c_summary) : c_summary[i] # DottedI) => C8_FirstMatchWins

(***************************************************************************)
(* main and the line loop of ics_to_items                                  *)
(***************************************************************************)

\* Bound: the number of logical lines of the fetched feed.
MaxLines == 8

\* One physical line of the feed with its line ending.
Crlf(s) == s \o <<"\r", "\n">>

\* The fetched text, by the pieces that make one logical line each: the
\* markers, SUMMARY lines (one folded over two physical lines, one whose
\* title is only a marker, one with two markers, one that unescapes to the
\* empty text), DTSTART lines around both ends of the window and in every
\* form parse_dt tells apart, and a LOCATION, a DESCRIPTION and a UID line.
FeedSegments ==
    { Crlf(BEGIN_VEVENT),
      Crlf(END_VEVENT),
      Crlf(<<"S", "U", "M", "M", "A", "R", "Y", ":", "[", "M", "L", "B", "]">>) \o Crlf(<<" ", " ", "D", "o", "d", "g", "e", "r", "s">>),
      Crlf(<<"S", "U", "M", "M", "A", "R", "Y", ":", "F", "1", ":", " ", "Q", "u", "a", "l", "i", " ", "#", "r", "e", "p", "l", "a", "y">>),
      Crlf(<<"S", "U", "M", "M", "A", "R", "Y", ":", "[", "G", "A", "M", "E", "]">>),
      Crlf(<<"S", "U", "M", "M", "A", "R", "Y", ":", "M", "L", "B", " ", "|", " ", "[", "F", "E", "]", " ", "x">>),
      Crlf(<<"s", "u", "m", "m", "a", "r", "y", ":", "\\", "n">>),
      Crlf(<<"D", "T", "S", "T", "A", "R", "T", ":", "2", "0", "2", "5", "0", "6", "0", "1", "T", "2", "3", "0", "0", "0", "0", "Z">>),
      Crlf(<<"D", "T", "S", "T", "A", "R", "T", ";", "T", "Z", "I", "D", "=", "A", "m", "e", "r", "i", "c", "a", "/", "N", "e", "w", "_", "Y", "o", "r", "k", ":", "2", "0", "2", "5", "0", "5", "3", "1", "T", "0", "8", "0", "0", "0", "0">>),
      Crlf(<<"D", "T", "S", "T", "A", "R", "T", ":", "2", "0", "2", "5", "0", "5", "3", "1", "T", "1", "1", "5", "9", "5", "9", "Z">>),
      Crlf(<<"D", "T", "S", "T", "A", "R", "T", ":", "2", "0", "2", "5", "0", "9", "2", "9", "T", "1", "2", "0", "0", "0", "0", "Z">>),
      Crlf(<<"D", "T", "S", "T", "A", "R", "T", ":", "2", "0", "2", "5", "1", "2", "1", "8", "T", "1", "2", "0", "0", "0", "0", "Z">>),
      Crlf(<<"D", "T", "S", "T", "A", "R", "T", ":", "2", "0", "2", "5", "0", "6", "0", "1">>),
      Crlf(<<"D", "T", "S", "T", "A", "R", "T", ":", "2", "0", "2", "5", "-", "0", "6", "-", "0", "1">>),
      Crlf(<<"D", "T", "S", "T", "A", "R", "T", ";", "T", "Z", "I", "D", "=", "M", "a", "r", "s", "/", "B", "a", "s", "e", ":", "2", "0", "2", "5", "0", "6", "0", "2", "T", "0", "1", "0", "0", "0", "0">>),
      Crlf(<<"L", "O", "C", "A", "T", "I", "O", "N", ":", "T", "w", "i", "t", "c", "h">>),
      Crlf(<<"D", "E", "S", "C", "R", "I", "P", "T", "I", "O", "N", ":", "#", "g", "a", "m", "e">>),
      Crlf(<<"U", "I", "D", ":", "1">>) }

\* The logical lines unfold_ics makes of those pieces (line 110).
FeedLines == {unfold_ics(seg)[1] : seg \in FeedSegments}

\* line.strip() (line 156) of each logical line of the feed.
StrippedLine == [raw \in FeedLines |-> Strip(raw)]

\* parse_prop(line) (line 169) of each logical line of the feed.
PropOf == [raw \in FeedLines |-> parse_prop(StrippedLine[raw])]

\* datetime.now(timezone.utc) of the run: 2025-06-01T12:00:00Z.
Nows == {Instant(2025, 6, 1, 12, 0, 0)}

\* args.days: the default.
WindowDays == {120}

\* Bound: the largest args.limit; the smallest is -1.
MaxLimit == 1

Limits == (0 - 1)..MaxLimit

\* The history before the first BEGIN:VEVENT: no event block is open, none
\* was restarted.
GClosed == [open |-> FALSE, last |-> EmptyDict, restarted |-> FALSE]

Init ==
    /\ pc = "start"
    /\ out_file \in {"absent", "prior"}
    /\ out_items = << >>
    /\ now_utc \in Nows
    /\ window_days \in WindowDays
    /\ limit \in Limits
    /\ n = 0
    /\ in_event = FALSE
    /\ ev = EmptyDict
    /\ items = << >>
    /\ g_last = GClosed
    /\ produced = << >>
    /\ IdleUnfold /\ IdleClass

loopVars == <<n, in_event, ev, items, g_last, produced>>
argVars == <<now_utc, window_days, limit>>
fileVars == <<out_file, out_items>>
pureVars == <<unfoldVars, classVars>>

\* if not args.ics_url: ... return 2
UrlMissing ==
    /\ pc = "start"
    /\ pc' = "exit2"
    /\ UNCHANGED <<fileVars, argVars, loopVars, pureVars>>

\* args.ics_url is set.
UrlGiven ==
    /\ pc = "start"
    /\ pc' = "fetch"
    /\ UNCHANGED <<fileVars, argVars, loopVars, pureVars>>

\* fetch_ics raises (URLError, timeout): the exception leaves main.
FetchRaises ==
    /\ pc = "fetch"
    /\ pc' = "raised_fetch"
    /\ UNCHANGED <<fileVars, argVars, loopVars, pureVars>>

\* Mutant of FetchReturns: the output file is opened for writing before the
\* feed is parsed.
FetchReturnsOpensFile ==
    /\ pc = "fetch"
    /\ pc' = "loop"
    /\ out_file' = "partial"
    /\ UNCHANGED <<out_items, argVars, loopVars, pureVars>>

\* fetch_ics returns the text; ics_to_items starts (lines 110-113).
FetchReturns ==
    /\ pc = "fetch"
    /\ pc' = "loop"
    /\ UNCHANGED <<fileVars, argVars, loopVars, pureVars>>

\* Mutant of LineBegin: the accumulator is not cleared.
LineBeginKeepsEv(raw) ==
    /\ pc = "loop" /\ n < MaxLines
    /\ StrippedLine[raw] = BEGIN_VEVENT
    /\ n' = n + 1
    /\ in_event' = TRUE
    /\ g_last' = [open |-> TRUE, last |-> EmptyDict,
                   restarted |-> g_last.open /\ DOMAIN g_last.last # {}]
    /\ UNCHANGED <<pc, ev, items, produced, fileVars, argVars, pureVars>>

\* The loop body on a BEGIN:VEVENT line.
LineBegin(raw) ==
    /\ pc = "loop" /\ n < MaxLines
    /\ StrippedLine[raw] = BEGIN_VEVENT
    /\ n' = n + 1
    /\ in_event' = TRUE
    /\ ev' = EmptyDict
    /\ g_last' = [open |-> TRUE, last |-> EmptyDict,
                   restarted |-> g_last.open /\ DOMAIN g_last.last # {}]
    /\ UNCHANGED <<pc, items, produced, fileVars, argVars, pureVars>>

\* The loop body on an END:VEVENT line: flush_event when inside an event; an
\* exception of flush_event leaves the loop, ics_to_items and main.
LineEnd(raw) ==
    /\ pc = "loop" /\ n < MaxLines
    /\ StrippedLine[raw] = END_VEVENT
    /\ n' = n + 1
    /\ g_last' = [GClosed EXCEPT !.restarted = g_last.restarted]
    /\ IF in_event
       THEN LET r == flush_event(ev, items)
            IN /\ ev' = r.ev
               /\ items' = r.items
               /\ in_event' = (IF r.raised THEN in_event ELSE FALSE)
               /\ pc' = (IF r.raised THEN "raised_parse" ELSE pc)
       ELSE /\ in_event' = FALSE
            /\ UNCHANGED <<pc, ev, items>>
    /\ UNCHANGED <<produced, fileVars, argVars, pureVars>>

\* The loop body on any other line: skipped outside an event; inside one,
\* parse_prop and, for a recognized name, ev[key] = (params, value).
LineOther(raw) ==
    /\ pc = "loop" /\ n < MaxLines
    /\ StrippedLine[raw] \notin {BEGIN_VEVENT, END_VEVENT}
    /\ n' = n + 1
    /\ LET p == PropOf[raw]
       IN /\ ev' = (IF in_event /\ p[1] \in RecognizedKeys
                    THEN DictSet(ev, p[1], <<p[2], p[3]>>) ELSE ev)
          /\ g_last' = (IF g_last.open /\ p[1] \in RecognizedKeys
                        THEN [g_last EXCEPT !.last = DictSet(g_last.last, p[1], raw)]
                        ELSE g_last)
    /\ UNCHANGED <<pc, in_event, items, produced, fileVars, argVars, pureVars>>

\* The feed ends: items.sort(...), return items, and main's [: args.limit].
\* The locals of ics_to_items end with the call; main keeps the list.
LinesEnd ==
    /\ pc = "loop"
    /\ items' = SliceTo(SortByWhen(items), limit)
    /\ pc' = "mkdir"
    /\ produced' = items
    /\ n' = 0 /\ in_event' = FALSE /\ ev' = EmptyDict /\ g_last' = GClosed
    /\ UNCHANGED <<fileVars, argVars, pureVars>>

\* os.makedirs(out_dir, exist_ok=True), or no out_dir.
MakeDirs ==
    /\ pc = "mkdir"
    /\ pc' = "open"
    /\ UNCHANGED <<fileVars, argVars, loopVars, pureVars>>

\* os.makedirs raises.
MakeDirsRaises ==
    /\ pc = "mkdir"
    /\ pc' = "raised_mkdir"
    /\ UNCHANGED <<fileVars, argVars, loopVars, pureVars>>

\* open(args.out, "w") raises: nothing is created or truncated.
OpenRaises ==
    /\ pc = "open"
    /\ pc' = "raised_open"
    /\ UNCHANGED <<fileVars, argVars, loopVars, pureVars>>

\* open(args.out, "w"), json.dump, the newline, close; print; return 0.
WriteFile ==
    /\ pc = "open"
    /\ out_file' = "written"
    /\ out_items' = items
    /\ pc' = "done"
    /\ UNCHANGED <<argVars, loopVars, pureVars>>

\* The file is opened (and so truncated) and a write then raises.
WriteRaises ==
    /\ pc = "open"
    /\ out_file' = "partial"
    /\ pc' = "raised_write"
    /\ UNCHANGED <<out_items, argVars, loopVars, pureVars>>

Next ==
    \/ UrlMissing
    \/ UrlGiven
    \/ FetchRaises
    \/ FetchReturns
    \/ \E raw \in FeedLines : LineBegin(raw)
    \/ \E raw \in FeedLines : LineEnd(raw)
    \/ \E raw \in FeedLines : LineOther(raw)
    \/ LinesEnd
    \/ MakeDirs
    \/ MakeDirsRaises
    \/ OpenRaises
    \/ WriteFile
    \/ WriteRaises

Spec == Init /\ [][Next]_vars

(***************************************************************************)
(* Properties of main and ics_to_items                                     *)
(***************************************************************************)

\* The run is in the line loop of ics_to_items.
InLoop == pc = "loop"

\* main has the list it will write (after the sort and the slice).
AfterParse == pc \in {"mkdir", "open", "done", "raised_mkdir", "raised_open", "raised_write"}

\* The unescaped SUMMARY of the accumulator.
EvSummary == unescape_ics_text(DictGet(ev, SUMMARY, NoProp)[2])

\* parse_dt of the accumulator's DTSTART.
EvStart ==
    parse_dt(DictGet(ev, DTSTART, NoProp)[2], DictGet(DictGet(ev, DTSTART, NoProp)[1], TZID, None))

\* A step of the loop on an END:VEVENT line inside an event that returns.
FlushStep == InLoop /\ pc' = "loop" /\ in_event /\ ~in_event'

\* A step of the loop that appends one record to items.
EmitStep == InLoop /\ pc' = "loop" /\ Len(items') = Len(items) + 1

\* The instant a `when` text YYYY-MM-DDTHH:MM:SSZ names.
WhenInstant(w) ==
    Instant(NumVal(SubSeq(w, 1, 4)), NumVal(SubSeq(w, 6, 7)), NumVal(SubSeq(w, 9, 10)),
            NumVal(SubSeq(w, 12, 13)), NumVal(SubSeq(w, 15, 16)), NumVal(SubSeq(w, 18, 19)))

InWindow(t) == now_utc - TimedeltaDays(1) <= t /\ t <= now_utc + TimedeltaDays(window_days)

\* C1: malformed data of one event is not fatal: no event, whatever its
\* DTSTART (missing, or in no supported form), makes ics_to_items raise; the
\* loop goes on with the remaining lines.
C1_MalformedEventNotFatal == pc # "raised_parse"

\* C2: every record has a non-empty title.
C2_TitleNonEmpty == \A i \in 1..Len(items) : items[i].title # << >>

\* C3: no record's title begins with a category marker of either pattern.
C3_NoMarkerPrefix ==
    \A i \in 1..Len(items) :
        /\ ReSearch(TYPE_PATTERNS[1], items[i].title) = NoMatch
        /\ ReSearch(TYPE_PATTERNS[2], items[i].title) = NoMatch

\* s is in non-decreasing order of `when`.
SortedByWhen(s) == \A i \in 1..(Len(s) - 1) : ~StrLess(s[i + 1].when, s[i].when)

\* out keeps k of the records of all, and no record left out is earlier than
\* one kept: there is a choice of k positions of all whose records, in some
\* order, are out, and every other position's record is not earlier.
KeepsEarliest(out, all) ==
    \E kept \in SUBSET (1..Len(all)) :
        /\ Cardinality(kept) = Len(out)
        /\ \E f \in [1..Len(out) -> kept] :
              /\ \A i, j \in 1..Len(out) : i # j => f[i] # f[j]
              /\ \A i \in 1..Len(out) : all[f[i]] = out[i]
        /\ \A i \in (1..Len(all)) \ kept : \A j \in kept :
              WhenInstant(all[i].when) >= WhenInstant(all[j].when)

RecordsInWindow == \A i \in 1..Len(items) : InWindow(WhenInstant(items[i].when))

\* A flush of an event with a non-empty SUMMARY and an interpretable DTSTART
\* appends a record exactly when the start is inside the window.
FlushDecidesByWindow ==
    (FlushStep /\ EvSummary # << >> /\ EvStart.kind = "datetime")
        => (EmitStep <=> InWindow(EvStart.t))

\* C5: an event with a non-empty SUMMARY and an interpretable DTSTART becomes
\* a record exactly when now - 1 day <= start <= now + window_days, and no
\* record ever starts outside that window.
C5_WindowFilter == [](RecordsInWindow) /\ [][FlushDecidesByWindow]_vars

\* C5 witness: a record starting exactly one day before now and a record
\* starting exactly at the end of the window were both kept.
C5_Witness ==
    /\ InLoop
    /\ Len(items) = 2
    /\ WhenInstant(items[1].when) = now_utc - TimedeltaDays(1)
    /\ WhenInstant(items[2].when) = now_utc + TimedeltaDays(window_days)

\* The positions at which main ended on an error before the write step, or
\* with the usage error.
FailedBeforeWrite == pc \in {"exit2", "raised_fetch", "raised_parse", "raised_mkdir", "raised_open"}

\* The output file is as the run found it.
FileUntouched == out_file \in {"absent", "prior"} /\ out_items = << >>

\* Only the write step, reached after the URL check, the fetch, the parse and
\* makedirs, changes the output file.
OnlyWriteStepTouchesFile ==
    (out_file' # out_file \/ out_items' # out_items) => (pc = "open" /\ pc' \in {"done", "raised_write"})

\* C6: the output file is opened for writing only after the URL check, the
\* fetch and the parse/sort/truncate step have completed; a run that ends on
\* an error before the write step leaves the file as it found it.
C6_NoOutputOnFatalError ==
    [](FailedBeforeWrite => FileUntouched) /\ [][OnlyWriteStepTouchesFile]_vars

\* C6 witness: a run that found a prior file and ended on the exception of a
\* malformed event, and the file still the prior one.
C6_Witness == pc = "raised_parse" /\ out_file = "prior" /\ n >= 3

\* The accumulator the history gives: each recognized name with the
\* parameters and value of its last line since the most recent BEGIN:VEVENT.
AccumulatorOf(last) == [k \in DOMAIN last |-> <<PropOf[last[k]][2], PropOf[last[k]][3]>>]

\* Only an END:VEVENT inside an event appends a record, and the record is
\* the one made of the last line of each recognized name since the most
\* recent BEGIN:VEVENT.
EmitsFromLastLines ==
    (InLoop /\ items' # items /\ pc' = "loop")
        => /\ in_event /\ ~in_event'
           /\ g_last.open
           /\ items' = flush_event(AccumulatorOf(g_last.last), items).items
           /\ Len(items') = Len(items) + 1

\* C9: a BEGIN:VEVENT inside an event discards the partial event without a
\* record, nothing of it carries over into the next record, which is built
\* from the last line of each recognized name after the most recent
\* BEGIN:VEVENT; an END:VEVENT outside an event emits nothing.
C9_RestartDiscardsPartial == [][EmitsFromLastLines]_vars

\* C9 witness: the one record so far was emitted at the END:VEVENT of an
\* event block that a second BEGIN:VEVENT had restarted after property lines
\* (seven lines are too few for a record before that block).
C9_Witness == InLoop /\ n <= 7 /\ Len(items) = 1 /\ ~in_event /\ g_last.restarted

\* C10: outside an event the accumulator is empty, after every prefix of
\* the lines.
C10_AccumulatorEmptyOutside == (InLoop /\ ~in_event) => DOMAIN ev = {}

\* C10 witness: outside an event after a record was emitted and a later
\* event was discarded.
C10_Witness == InLoop /\ ~in_event /\ DOMAIN ev = {} /\ Len(items) = 1 /\ n = 8

====
